---- MODULE Spec2Model ----
(***************************************************************************)
(* A model of the web-lattice SDK: the process-wide configuration store    *)
(* (sdk/config.ts), the metrics recorder and the encryption helper (the    *)
(* metrics and encryption modules), and the request/response pipeline with *)
(* its facade verbs (sdk/WebLattice.ts).                                   *)
(***************************************************************************)
EXTENDS Integers, Sequences, FiniteSets, TLC

VARIABLES
    globalConfig,   \* config.ts: let globalConfig (the process-wide singleton)
    cfgHistory,     \* history: the partials handed to setNetworkConfig, in order
    helper,         \* a direct use of encryptData / decryptData by a caller
    clients,        \* the WebLattice instances: this.config of each
    calls,          \* one record per facade call: its request config and outcome
    requestKeys,    \* WebLattice.ts: const requestKeys (request -> {aesKey, iv})
    now,            \* Date.now()
    metricLog,      \* the MetricRecords that passed recordMetrics' enabled test
    redirects       \* the window.location.assign calls made

vars == <<globalConfig, cfgHistory, helper, clients, calls, requestKeys, now,
          metricLog, redirects>>

-----------------------------------------------------------------------------
(* Bounds of the model *)

MaxHistory == 3     \* setNetworkConfig calls followed in SpecConfig
MaxCalls == 2       \* facade calls followed in Spec
MaxTime == 2        \* Date.now() stops advancing here
MaxUpdates == 1     \* setNetworkConfig calls made while calls are followed in Spec
MaxParams == 2      \* entries of a queryParams map
MaxClients == 2     \* clients constructed in one process in SpecClients

-----------------------------------------------------------------------------
(* Values *)

\* An optional field of an object: obj.name, or dflt when it is undefined.
Field(obj, name, dflt) == IF name \in DOMAIN obj THEN obj[name] ELSE dflt

\* A string value. kind "text" is a plain string s; kind "cipher" is the
\* output of CryptoJS.AES.encrypt(s, key) with the random salt it drew.
Text(s) == [kind |-> "text", s |-> s, key |-> "", salt |-> 0]

Salts == {1, 2}

\* Payloads handed to JSON.stringify.
Payloads ==
    { [t |-> "null"],
      [t |-> "num", n |-> 7],
      [t |-> "str", s |-> "a"],
      [t |-> "obj", k |-> "id", n |-> 1],
      [t |-> "obj", k |-> "id", n |-> 2] }

\* JSON.stringify(data)
JSONstringify(data) ==
    CASE data.t = "null" -> "null"
      [] data.t = "num"  -> ToString(data.n)
      [] data.t = "str"  -> "\"" \o data.s \o "\""
      [] data.t = "obj"  -> "{\"" \o data.k \o "\":" \o ToString(data.n) \o "}"

\* The JSON texts of the payloads, and JSON.parse on them.
JSONtexts == { JSONstringify(p) : p \in Payloads }
JSONparse(s) == CHOOSE p \in Payloads : JSONstringify(p) = s
IsJSON(s) == s \in JSONtexts

-----------------------------------------------------------------------------
(* sdk/config.ts: the configuration store *)

\* let globalConfig = {...}: the defaults (no headers and no graphql key).
DefaultConfig ==
    [ baseUrl |-> "",
      timeout |-> 10000,
      environment |-> "DEV",
      encryption |-> [enabled |-> FALSE],
      metrics |-> [enabled |-> TRUE, logToConsole |-> TRUE] ]

\* A mutant: a deep merge, field by field inside the sub-objects.
setNetworkConfigDeep(current, config) ==
    [ k \in (DOMAIN current) \cup (DOMAIN config) |->
        IF k \notin DOMAIN config THEN current[k]
        ELSE IF k \in {"encryption", "metrics", "graphql"} /\ k \in DOMAIN current
             THEN [ f \in (DOMAIN current[k]) \cup (DOMAIN config[k]) |->
                      IF f \in DOMAIN config[k] THEN config[k][f] ELSE current[k][f] ]
             ELSE config[k] ]

\* setNetworkConfig: globalConfig = { ...globalConfig, ...config }
setNetworkConfig(current, config) ==
    [ k \in (DOMAIN current) \cup (DOMAIN config) |->
        IF k \in DOMAIN config THEN config[k] ELSE current[k] ]

\* getNetworkConfig
getNetworkConfig == globalConfig

\* globalConfig.encryption?.enabled, .secretKey, .useRemoteKeys
EncEnabled(cfg) ==
    "encryption" \in DOMAIN cfg /\ Field(cfg.encryption, "enabled", FALSE)
SecretKey(cfg) ==
    IF "encryption" \in DOMAIN cfg THEN Field(cfg.encryption, "secretKey", "") ELSE ""
UseRemoteKeys(cfg) ==
    "encryption" \in DOMAIN cfg /\ Field(cfg.encryption, "useRemoteKeys", FALSE)

\* globalConfig.metrics?.enabled, .logToConsole
MetricsEnabled(cfg) ==
    "metrics" \in DOMAIN cfg /\ Field(cfg.metrics, "enabled", FALSE)
LogToConsole(cfg) ==
    "metrics" \in DOMAIN cfg /\ Field(cfg.metrics, "logToConsole", FALSE)

\* globalConfig.graphql?.endpoint || ""
GraphqlEndpoint(cfg) ==
    IF "graphql" \in DOMAIN cfg THEN Field(cfg.graphql, "endpoint", "") ELSE ""

-----------------------------------------------------------------------------
(* The encryption module (second part of sdk/config.ts) *)

\* CryptoJS.AES.encrypt(jsonString, secretKey).toString(): a salted ciphertext.
AESencrypt(plain, key, salt) ==
    [kind |-> "cipher", s |-> plain, key |-> key, salt |-> salt]

\* What the conversion of garbage bytes to UTF-8 can do: yield an unusable
\* string, or throw.
AESgarbage ==
    { [threw |-> FALSE, val |-> Text("")],
      [threw |-> TRUE, val |-> Text("")] }

\* CryptoJS.AES.decrypt(data, secretKey).toString(CryptoJS.enc.Utf8): the
\* plaintext when data is a ciphertext under this key; otherwise the bytes are
\* garbage and the conversion either yields an unusable string or throws
\* "Malformed UTF-8 data".
AESdecrypt(data, key) ==
    IF data.kind = "cipher" /\ data.key = key
    THEN { [threw |-> FALSE, val |-> Text(data.s)] }
    ELSE AESgarbage

\* A mutant: encryptData that forgets the pass-through for a missing key.
encryptDataNoKeyTest(cfg, data, salt) ==
    IF ~EncEnabled(cfg)
    THEN Text(JSONstringify(data))
    ELSE AESencrypt(JSONstringify(data), SecretKey(cfg), salt)

\* encryptData(data), reading globalConfig = cfg
encryptData(cfg, data, salt) ==
    IF ~EncEnabled(cfg) \/ SecretKey(cfg) = ""
    THEN Text(JSONstringify(data))
    ELSE AESencrypt(JSONstringify(data), SecretKey(cfg), salt)

\* A mutant: decryptData that tests only the key, not the enabled flag.
decryptDataKeyOnly(cfg, encryptedData) ==
    IF SecretKey(cfg) = ""
    THEN { [threw |-> FALSE, val |-> encryptedData] }
    ELSE AESdecrypt(encryptedData, SecretKey(cfg))

\* decryptData(encryptedData), reading globalConfig = cfg: the outcomes
decryptData(cfg, encryptedData) ==
    IF ~EncEnabled(cfg) \/ SecretKey(cfg) = ""
    THEN { [threw |-> FALSE, val |-> encryptedData] }
    ELSE AESdecrypt(encryptedData, SecretKey(cfg))

-----------------------------------------------------------------------------
(* Configurations and partial updates used as inputs *)

Envs == {"DEV", "UAT", "PROD"}

EncryptionObjs ==
    { [enabled |-> FALSE],
      [enabled |-> TRUE],
      [enabled |-> FALSE, secretKey |-> "K1"],
      [enabled |-> TRUE, secretKey |-> "K1", useRemoteKeys |-> FALSE],
      [enabled |-> TRUE, secretKey |-> "K2", useRemoteKeys |-> FALSE] }

MetricsObjs ==
    { [enabled |-> TRUE, logToConsole |-> TRUE],
      [enabled |-> FALSE, logToConsole |-> TRUE],
      [enabled |-> TRUE] }

ConfigKeys ==
    {"baseUrl", "timeout", "headers", "environment", "encryption", "metrics", "graphql"}

\* Partial<NetworkConfig> values handed to setNetworkConfig.
ConfigPartials ==
    { [environment |-> e] : e \in Envs }
    \cup { [encryption |-> x] : x \in EncryptionObjs }
    \cup { [metrics |-> m] : m \in MetricsObjs }
    \cup { [graphql |-> [endpoint |-> "/graphql"]],
           [baseUrl |-> "https://api", timeout |-> 5000],
           [baseUrl |-> "https://b", environment |-> "PROD",
            encryption |-> [enabled |-> TRUE, secretKey |-> "K1", useRemoteKeys |-> FALSE],
            metrics |-> [enabled |-> FALSE, logToConsole |-> TRUE]] }

-----------------------------------------------------------------------------
(* SpecConfig: sequences of setNetworkConfig calls *)

NoHelper ==
    [ pc |-> "start", payload |-> [t |-> "null"], encCfg |-> DefaultConfig,
      enc |-> Text(""), dec |-> [threw |-> FALSE, val |-> Text("")],
      changed |-> FALSE ]

InitConfig ==
    /\ globalConfig = DefaultConfig
    /\ cfgHistory = <<>>
    /\ helper = NoHelper
    /\ clients = <<>>
    /\ calls = <<>>
    /\ requestKeys = <<>>
    /\ now = 1
    /\ metricLog = <<>>
    /\ redirects = <<>>

\* A caller's setNetworkConfig(partial).
CfgSetConfig ==
    /\ Len(cfgHistory) < MaxHistory
    /\ \E partial \in ConfigPartials :
         /\ globalConfig' = setNetworkConfig(globalConfig, partial)
         /\ cfgHistory' = Append(cfgHistory, partial)
    /\ UNCHANGED <<helper, clients, calls, requestKeys, now, metricLog, redirects>>

NextConfig == CfgSetConfig

SpecConfig == InitConfig /\ [][NextConfig]_vars

\* The last partial of the history that contains key k (0: none does).
LatestIndex(h, k) ==
    LET S == { i \in 1..Len(h) : k \in DOMAIN h[i] }
    IN IF S = {} THEN 0 ELSE CHOOSE i \in S : \A j \in S : j <= i

-----------------------------------------------------------------------------
(* SpecHelper: a caller's own encryptData / decryptData calls *)

HelperPartials ==
    { [environment |-> e] : e \in Envs }
    \cup { [encryption |-> x] : x \in EncryptionObjs }

\* setNetworkConfig(partial) by the caller, before or between the two calls.
HelperSetConfig ==
    /\ helper.pc # "decrypted"
    /\ \E partial \in HelperPartials :
         /\ globalConfig' = setNetworkConfig(globalConfig, partial)
         /\ helper' = [helper EXCEPT !.changed =
                          helper.changed \/
                          (helper.pc = "encrypted" /\ globalConfig' # globalConfig)]
    /\ UNCHANGED <<cfgHistory, clients, calls, requestKeys, now, metricLog, redirects>>

\* encryptData(P)
HelperEncrypt ==
    /\ helper.pc = "start"
    /\ \E data \in Payloads, salt \in Salts :
         helper' = [helper EXCEPT !.pc = "encrypted",
                                  !.payload = data,
                                  !.encCfg = globalConfig,
                                  !.enc = encryptData(globalConfig, data, salt)]
    /\ UNCHANGED <<globalConfig, cfgHistory, clients, calls, requestKeys, now,
                   metricLog, redirects>>

\* decryptData(encryptData(P))
HelperDecrypt ==
    /\ helper.pc = "encrypted"
    /\ \E out \in decryptData(globalConfig, helper.enc) :
         helper' = [helper EXCEPT !.pc = "decrypted", !.dec = out]
    /\ UNCHANGED <<globalConfig, cfgHistory, clients, calls, requestKeys, now,
                   metricLog, redirects>>

NextHelper == HelperSetConfig \/ HelperEncrypt \/ HelperDecrypt

SpecHelper == InitConfig /\ [][NextHelper]_vars

-----------------------------------------------------------------------------
(* sdk/WebLattice.ts: values of the pipeline *)

CallIds == 1..MaxCalls

\* A string whose characters matter (a url, a query key or value) is a sequence
\* of tokens: a token is one of the characters "?", "&", "=", " ", "/", or a run
\* of letters and digits (with the leading "/" of a path kept in its run).
Urls == { <<"/users">>, <<"/items">> }

\* Urls given to constructUrl: without a query, with one, and ending in "?".
UrlInputs == { <<"/users">>, <<"/users", "?", "x", "=", "1">>, <<"/users", "?">> }

\* The values of a QueryParams map: string | number | boolean | undefined | null.
ParamValues ==
    { [t |-> "undefined"],
      [t |-> "null"],
      [t |-> "num", n |-> 1],
      [t |-> "bool", b |-> FALSE],
      [t |-> "str", s |-> <<>>],
      [t |-> "str", s |-> <<"a", " ", "b", "&", "c">>] }

ParamKeys == { <<"page">>, <<"limit">>, <<"q", " ", "x">> }

\* Object.entries(queryParams): the entries of a map, in the order the map
\* yields them; no key occurs twice.
RECURSIVE EntriesUpTo(_)
EntriesUpTo(n) ==
    IF n = 0 THEN { <<>> }
    ELSE LET shorter == EntriesUpTo(n - 1)
         IN shorter \cup
            { Append(e, [key |-> k, value |-> v]) :
                e \in { x \in shorter : Len(x) = n - 1 }, k \in ParamKeys, v \in ParamValues }

QueryParamInputs ==
    { e \in EntriesUpTo(MaxParams) :
        \A i, j \in 1..Len(e) : i # j => e[i].key # e[j].key }

NoParams == <<>>

Undefined == [k |-> "undefined"]

\* Request bodies given to post / put / patch.
ItemBody == [k |-> "obj", v |-> [t |-> "obj", k |-> "id", n |-> 1]]
ItemReply == [k |-> "obj", v |-> [t |-> "obj", k |-> "id", n |-> 2]]

RequestBodies ==
    { ItemBody,
      [k |-> "str", v |-> Text("raw")] }

\* Response bodies as axios hands them over: "" (no body), a parsed JSON null,
\* a parsed JSON value, or a string that was not JSON (a ciphertext, a page).
EmptyBody == [k |-> "empty"]
NullBody == [k |-> "null"]
ResponseBodies ==
    { EmptyBody,
      NullBody,
      ItemReply,
      [k |-> "str", v |-> AESencrypt("{\"id\":2}", "K1", 1)],
      [k |-> "str", v |-> AESencrypt("oops", "K1", 1)],
      [k |-> "str", v |-> Text("<html>")] }

ErrorBodies ==
    { EmptyBody,
      ItemReply,
      [k |-> "str", v |-> AESencrypt("{\"id\":2}", "K1", 1)],
      [k |-> "str", v |-> Text("<html>")] }

OkStatuses == {200}
ErrorStatuses == {401, 404, 500, 503}

\* generateEncryptionKeys(): two random values.
KeyPairs == { [aesKey |-> "a1", iv |-> "v1"], [aesKey |-> "a2", iv |-> "v2"] }
NoKeys == [set |-> FALSE, aesKey |-> "", iv |-> ""]

\* The result of requestKeys.get in a response handler (read: the handler got
\* as far as the lookup).
NotRead == [read |-> FALSE, set |-> FALSE, aesKey |-> "", iv |-> ""]
KeysRead(keys) ==
    [read |-> TRUE, set |-> keys.set, aesKey |-> keys.aesKey, iv |-> keys.iv]

\* Messages of the errors built while the session store is read.
BuildErrorMessages == {"sessionStorage is not defined", ""}

NoEnvelope ==
    [success |-> FALSE, data |-> Undefined, error |-> "", statusCode |-> 0,
     errorCode |-> ""]

NoSnapshot == [metrics |-> FALSE, enabled |-> FALSE, key |-> "", env |-> ""]

\* What a call's response phase would read from this configuration.
Snapshot(cfg) ==
    [metrics |-> MetricsEnabled(cfg), enabled |-> EncEnabled(cfg), key |-> SecretKey(cfg),
     env |-> Field(cfg, "environment", "")]

\* AxiosHeaders: a map from header name to value. Names are matched without
\* regard to case; they are written in lower case here.
EmptyHeaders == [k \in {} |-> ""]

\* Headers a caller passes with a call (config.headers).
CallerHeaders ==
    { EmptyHeaders,
      [k \in {"x-trace"} |-> "t1"],
      [k \in {"x-client-version"} |-> "2.0"],
      [k \in {"authorization"} |-> "Basic abc"] }

\* sessionStorage.getItem("accessToken"): "" stands for null.
AccessTokens == {"", "tok1"}

\* Math.random().toString(36).substring(2, 15)
RandomSuffixes == {"r1", "r2"}

IdleCall ==
    [ pc |-> "idle",            \* idle, issued (before the request handler), sent, done
      client |-> 1,
      verb |-> "",
      url |-> <<>>,             \* config.url
      method |-> "",            \* config.method
      data |-> Undefined,       \* config.data
      headers |-> EmptyHeaders, \* config.headers
      optGraphQL |-> FALSE,     \* config.isGraphQL, as the verb sets it
      isGraphQL |-> FALSE,      \* config._isGraphQL
      startTime |-> 0,          \* config._startTime (0: not set)
      settled |-> "pending",    \* the facade's promise: pending, resolved, rejected
      envelope |-> NoEnvelope,
      \* history of the call, for the claims
      inUrl |-> <<>>,           \* the url and queryParams the verb was given
      queryParams |-> <<>>,
      optBaseUrl |-> "",        \* graphql: config.baseUrl, and the global endpoint
      endpointAtCall |-> "",    \*   when the verb was called
      body |-> Undefined,       \* the data the verb was given
      optHeaders |-> EmptyHeaders,
      token |-> "",             \* the session token read by the request handler
      preCommon |-> EmptyHeaders,  \* the headers before addCommonHeaders
      keysRead |-> NotRead,     \* what requestKeys.get returned in the response phase
      decryptFailure |-> "",    \* "", "parse" (JSON.parse threw), "threw" (decryptData threw)
      built |-> FALSE,
      atBuild |-> NoSnapshot,
      changedSinceIssue |-> FALSE,
      sends |-> 0,
      responded |-> FALSE,
      httpStatus |-> 0,
      errorHasResponse |-> FALSE,
      reachedRecord |-> FALSE,
      metricsAtEnd |-> FALSE,
      decryptMode |-> "none",
      endTime |-> 0,
      rejectedSteps |-> <<>> ]  \* what the rejected handler and the catch did, in order

\* initWebLattice(config): the NetworkConfig it builds.
initWebLattice(baseUrl, env, encryptionKey, enableMetrics) ==
    [ baseUrl |-> baseUrl,
      timeout |-> 10000,
      environment |-> env,
      encryption |-> [enabled |-> encryptionKey # "", secretKey |-> encryptionKey,
                      useRemoteKeys |-> FALSE],
      metrics |-> [enabled |-> enableMetrics, logToConsole |-> TRUE] ]

ClientConfigs ==
    { initWebLattice("https://api", env, key, m) :
        env \in {"DEV", "PROD"}, key \in {"", "K1"}, m \in BOOLEAN }

\* Partials a caller hands to setNetworkConfig while calls are made.
PipelinePartials ==
    { [metrics |-> [enabled |-> TRUE, logToConsole |-> TRUE]],
      [metrics |-> [enabled |-> FALSE, logToConsole |-> TRUE]],
      [encryption |-> [enabled |-> TRUE, secretKey |-> "K2", useRemoteKeys |-> FALSE]],
      [encryption |-> [enabled |-> FALSE]],
      [graphql |-> [endpoint |-> "/graphql"]] }

-----------------------------------------------------------------------------
(* sdk/WebLattice.ts: helpers *)

\* const isProd = (config) => config.environment === 'PROD' && config.encryption?.enabled
isProd(config) == Field(config, "environment", "") = "PROD" /\ EncEnabled(config)

\* headers.set(name, value)
SetHeader(headers, name, value) ==
    [ k \in (DOMAIN headers) \cup {name} |-> IF k = name THEN value ELSE headers[k] ]

\* Headers merged, the second argument winning.
MergeHeaders(base, over) ==
    [ k \in (DOMAIN base) \cup (DOMAIN over) |->
        IF k \in DOMAIN over THEN over[k] ELSE base[k] ]

\* axios.create({ headers: {...config.headers, "Content-Type": "application/json"} })
ClientHeaders(config) ==
    SetHeader(Field(config, "headers", EmptyHeaders), "content-type", "application/json")

\* A mutant: getPublicKeyDetails that hands out the key where the id belongs.
getPublicKeyDetailsKeyAsId(cfg) ==
    IF UseRemoteKeys(cfg)
    THEN [publicKey |-> "remote-key-id", publicKey_id |-> "remote-key-value"]
    ELSE [publicKey |-> "local-key-id", publicKey_id |-> SecretKey(cfg)]

\* getPublicKeyDetails(), reading globalConfig = cfg
getPublicKeyDetails(cfg) ==
    IF UseRemoteKeys(cfg)
    THEN [publicKey |-> "remote-key-value", publicKey_id |-> "remote-key-id"]
    ELSE [publicKey |-> SecretKey(cfg), publicKey_id |-> "local-key-id"]

\* updateHeadersWithEncryption(config, aesKey, iv, publicKey_id): config.headers after it
updateHeadersWithEncryption(headers, aesKey, iv, publicKey_id) ==
    LET h1 == SetHeader(MergeHeaders(EmptyHeaders, headers), "x-encryption", "true")
        h2 == SetHeader(h1, "x-encryption-key", aesKey)
        h3 == SetHeader(h2, "x-encryption-iv", iv)
    IN IF publicKey_id # "" THEN SetHeader(h3, "x-public-key-id", publicKey_id) ELSE h3

\* if (accessToken) headers.set("Authorization", `Bearer ${accessToken}`)
WithAuthorization(headers, accessToken) ==
    IF accessToken # ""
    THEN SetHeader(headers, "authorization", "Bearer " \o accessToken)
    ELSE headers

CommonHeaderNames == {"x-correlation-id", "x-client-version", "x-app-platform"}

\* A mutant: the common headers on a fresh AxiosHeaders, nothing copied.
addCommonHeadersFresh(headers, time, random) ==
    LET h1 == SetHeader(EmptyHeaders, "x-correlation-id", ToString(time) \o "-" \o random)
        h2 == SetHeader(h1, "x-client-version", "1.0.0")
    IN SetHeader(h2, "x-app-platform", "web")

\* addCommonHeaders(config): config.headers after it
addCommonHeaders(headers, time, random) ==
    LET h1 == SetHeader(MergeHeaders(EmptyHeaders, headers), "x-correlation-id",
                        ToString(time) \o "-" \o random)
        h2 == SetHeader(h1, "x-client-version", "1.0.0")
    IN SetHeader(h2, "x-app-platform", "web")

\* getRequestMetadata: config.url || "", config.method?.toUpperCase() || "UNKNOWN"
getRequestMetadata(config) ==
    [ url |-> config.url,
      method |-> CASE config.method = "get" -> "GET"
                   [] config.method = "post" -> "POST"
                   [] config.method = "put" -> "PUT"
                   [] config.method = "patch" -> "PATCH"
                   [] config.method = "delete" -> "DELETE"
                   [] OTHER -> "UNKNOWN" ]

\* String(value) of a query value that is neither undefined nor null.
StringOf(value) ==
    CASE value.t = "num"  -> <<ToString(value.n)>>
      [] value.t = "bool" -> << IF value.b THEN "true" ELSE "false" >>
      [] value.t = "str"  -> value.s

\* URLSearchParams.toString() on one token: the form-urlencoded serialization.
UrlEncodeToken(tok) ==
    CASE tok = " " -> "+"
      [] tok = "&" -> "%26"
      [] tok = "=" -> "%3D"
      [] tok = "?" -> "%3F"
      [] tok = "/" -> "%2F"
      [] OTHER     -> tok

UrlEncode(str) == [i \in 1..Len(str) |-> UrlEncodeToken(str[i])]

\* params.append(key, String(value)) for each entry that passes the test.
RECURSIVE AppendParams(_, _)
AppendParams(params, entries) ==
    IF entries = <<>> THEN params
    ELSE LET e == Head(entries)
         IN AppendParams(
              IF e.value.t # "undefined" /\ e.value.t # "null"
              THEN Append(params, [name |-> e.key, value |-> StringOf(e.value)])
              ELSE params,
              Tail(entries))

\* params.toString(): name=value pairs joined by "&".
RECURSIVE ParamsToString(_)
ParamsToString(params) ==
    IF params = <<>> THEN <<>>
    ELSE LET p == Head(params)
             first == UrlEncode(p.name) \o <<"=">> \o UrlEncode(p.value)
         IN IF Len(params) = 1 THEN first
            ELSE first \o <<"&">> \o ParamsToString(Tail(params))

\* url.includes("?")
Includes(url, tok) == \E i \in 1..Len(url) : url[i] = tok

\* A mutant: the query is always introduced by "?".
constructUrlQuestionMark(url, queryParams) ==
    LET queryString == ParamsToString(AppendParams(<<>>, queryParams))
    IN IF queryString # <<>> THEN url \o <<"?">> \o queryString ELSE url

\* constructUrl(url, queryParams)
constructUrl(url, queryParams) ==
    LET queryString == ParamsToString(AppendParams(<<>>, queryParams))
    IN IF queryString # <<>>
       THEN url \o << IF Includes(url, "?") THEN "&" ELSE "?" >> \o queryString
       ELSE url

\* error.config || {}: the request config of an error that carries none.
EmptyRequestConfig == IdleCall

\* A mutant: metrics recorded whatever the configuration says.
recordMetricsAlways(cfg, log, data) ==
    Append(log, data @@ [logged |-> LogToConsole(cfg)])

\* recordMetrics(data), reading globalConfig = cfg: the log afterwards.
recordMetrics(cfg, log, data) ==
    IF ~MetricsEnabled(cfg) THEN log
    ELSE Append(log, data @@ [logged |-> LogToConsole(cfg)])

\* (config as any)._startTime || endTime
\* A mutant: the start time is not read back from the request.
StartTimeOfShared(config, endTime) == endTime

StartTimeOf(config, endTime) ==
    IF config.startTime # 0 THEN config.startTime ELSE endTime

\* The MetricData the response handlers build.
MetricData(config, endTime, status, success, encrypted, by) ==
    [ url |-> getRequestMetadata(config).url,
      method |-> getRequestMetadata(config).method,
      startTime |-> StartTimeOf(config, endTime),
      endTime |-> endTime,
      duration |-> endTime - StartTimeOf(config, endTime),
      status |-> status,
      success |-> success,
      encrypted |-> encrypted,
      graphql |-> config.isGraphQL,
      by |-> by ]

\* The branch decryptData takes under cfg: pass-through, or AES with a key.
DecryptBranch(enabled, key) == IF ~enabled \/ key = "" THEN "pass" ELSE key

\* JSON.parse(decryptedData), as a response body.
ParsedBody(s) ==
    IF JSONparse(s).t = "null" THEN NullBody ELSE [k |-> "obj", v |-> JSONparse(s)]

\* A mutant: the fulfilled side swallows a failure as the rejected side does.
FulfilledDecryptSwallow(clientConfig, cfg, keys, body) ==
    IF isProd(clientConfig) /\ keys.set /\ body.k = "str"
    THEN { [rejected |-> FALSE, message |-> "",
            data |-> IF ~o.threw /\ o.val.kind = "text" /\ IsJSON(o.val.s)
                     THEN ParsedBody(o.val.s) ELSE body,
            mode |-> DecryptBranch(EncEnabled(cfg), SecretKey(cfg)),
            failure |-> IF o.threw THEN "threw"
                        ELSE IF o.val.kind = "text" /\ IsJSON(o.val.s) THEN ""
                        ELSE "parse"]
           : o \in decryptData(cfg, body.v) }
    ELSE { [rejected |-> FALSE, message |-> "", data |-> body, mode |-> "none",
            failure |-> ""] }

\* The response handler's try block up to recordMetrics (fulfilled side): the
\* possible results for a response body.
FulfilledDecrypt(clientConfig, cfg, keys, body) ==
    IF isProd(clientConfig) /\ keys.set /\ body.k = "str"
    THEN { IF o.threw
           THEN [rejected |-> TRUE, message |-> "Malformed UTF-8 data", data |-> body,
                 mode |-> DecryptBranch(EncEnabled(cfg), SecretKey(cfg)),
                 failure |-> "threw"]
           ELSE IF o.val.kind = "text" /\ IsJSON(o.val.s)
           THEN [rejected |-> FALSE, message |-> "", data |-> ParsedBody(o.val.s),
                 mode |-> DecryptBranch(EncEnabled(cfg), SecretKey(cfg)),
                 failure |-> ""]
           ELSE [rejected |-> TRUE, message |-> "Unexpected token in JSON", data |-> body,
                 mode |-> DecryptBranch(EncEnabled(cfg), SecretKey(cfg)),
                 failure |-> "parse"]
           : o \in decryptData(cfg, body.v) }
    ELSE { [rejected |-> FALSE, message |-> "", data |-> body, mode |-> "none",
            failure |-> ""] }

\* The same on the rejected side: a parse failure is logged and the handler
\* goes on; a throw of decryptData leaves the try block.
RejectedDecrypt(clientConfig, cfg, keys, error) ==
    IF isProd(clientConfig) /\ error.hasResponse /\ error.data.k # "empty"
       /\ error.hasConfig /\ keys.set /\ error.data.k = "str"
    THEN { IF o.threw
           THEN [threw |-> TRUE, data |-> error.data,
                 mode |-> DecryptBranch(EncEnabled(cfg), SecretKey(cfg)),
                 failure |-> "threw"]
           ELSE IF o.val.kind = "text" /\ IsJSON(o.val.s)
           THEN [threw |-> FALSE, data |-> ParsedBody(o.val.s),
                 mode |-> DecryptBranch(EncEnabled(cfg), SecretKey(cfg)),
                 failure |-> ""]
           ELSE [threw |-> FALSE, data |-> error.data,
                 mode |-> DecryptBranch(EncEnabled(cfg), SecretKey(cfg)),
                 failure |-> "parse"]
           : o \in decryptData(cfg, error.data.v) }
    ELSE { [threw |-> FALSE, data |-> error.data, mode |-> "none", failure |-> ""] }

\* The redirect of the rejected handler: the paths assigned for a status
\* (0: the error carries no response).
RedirectFor(status) ==
    IF status = 401 THEN <<"/enter-email">>
    ELSE IF status # 0 /\ status >= 500 /\ status < 600 THEN <<"/generic-error">>
    ELSE <<>>

\* The facade's try: the success envelope.
SuccessEnvelope(data, status) ==
    [success |-> TRUE, data |-> data, error |-> "", statusCode |-> status,
     errorCode |-> ""]

\* A mutant: the catch without its defaults.
FailureEnvelopeNoDefaults(message, status) ==
    [ success |-> FALSE, data |-> Undefined, error |-> message, statusCode |-> status,
      errorCode |-> "ERR_" \o ToString(status) ]

\* The facade's catch: the failure envelope for an error with this message and
\* this error.response?.status (0: none).
FailureEnvelope(message, status) ==
    [ success |-> FALSE,
      data |-> Undefined,
      error |-> IF message # "" THEN message ELSE "An unknown error occurred",
      statusCode |-> IF status # 0 THEN status ELSE 500,
      errorCode |-> "ERR_" \o (IF status # 0 THEN ToString(status) ELSE "UNKNOWN") ]

\* A mutant: a verb whose error is not caught.
FacadeNoCatch(message, status) ==
    [settled |-> "rejected", envelope |-> NoEnvelope]

\* try { ... } catch (error) { return {...} } of every verb: how the call settles
\* on an error.
FacadeCatch(message, status) ==
    [settled |-> "resolved", envelope |-> FailureEnvelope(message, status)]

-----------------------------------------------------------------------------
(* The operations of a client: the facade verbs, the interceptors, and the     *)
(* caller's configuration updates between their steps. Each takes the inputs   *)
(* it draws from as sets, so that a specification can follow many calls with   *)
(* few inputs or one call with many.                                           *)

\* new WebLattice(config): this.config = config; setNetworkConfig(config).
InitWith(configs) ==
    /\ \E config \in configs :
         /\ clients = <<config>>
         /\ globalConfig = setNetworkConfig(DefaultConfig, config)
    /\ cfgHistory = <<>>
    /\ helper = NoHelper
    /\ calls = [c \in CallIds |-> IdleCall]
    /\ requestKeys = [c \in CallIds |-> NoKeys]
    /\ now = 1
    /\ metricLog = <<>>
    /\ redirects = <<>>

\* Calls are numbered in the order they are made.
CanIssue(c) ==
    /\ calls[c].pc = "idle"
    /\ IF c = 1 THEN TRUE ELSE calls[c - 1].pc # "idle"

\* The history a call keeps when it ends.
Finished(call, result, responded, status, errorHasResponse, reachedRecord, mode) ==
    [call EXCEPT !.pc = "done",
                 !.settled = result.settled,
                 !.envelope = result.envelope,
                 !.responded = responded,
                 !.httpStatus = status,
                 !.errorHasResponse = errorHasResponse,
                 !.reachedRecord = reachedRecord,
                 !.metricsAtEnd = MetricsEnabled(globalConfig),
                 !.decryptMode = mode,
                 !.endTime = now]

\* get / post / put / patch / delete up to this.client.<verb>(finalUrl, ...):
\* the final url is built and the request enters the interceptor chain with the
\* client's default headers and the caller's.
IssueRest(c, verb, url, queryParams, data, headers) ==
    /\ CanIssue(c)
    /\ calls' = [calls EXCEPT ![c] =
         [@ EXCEPT !.pc = "issued", !.verb = verb,
                   !.inUrl = url, !.queryParams = queryParams,
                   !.url = constructUrl(url, queryParams),
                   !.method = verb,
                   !.data = data, !.body = data,
                   !.optHeaders = headers,
                   !.headers = MergeHeaders(ClientHeaders(clients[calls[c].client]), headers),
                   !.optGraphQL = FALSE]]
    /\ UNCHANGED <<globalConfig, cfgHistory, helper, clients, requestKeys, now,
                   metricLog, redirects>>

Get(c, urls, params, headers) ==
    \E url \in urls, q \in params, h \in headers :
      IssueRest(c, "get", url, q, Undefined, h)

Post(c, urls, params, bodies, headers) ==
    \E url \in urls, q \in params, data \in bodies, h \in headers :
      IssueRest(c, "post", url, q, data, h)

Put(c, urls, params, bodies, headers) ==
    \E url \in urls, q \in params, data \in bodies, h \in headers :
      IssueRest(c, "put", url, q, data, h)

Patch(c, urls, params, bodies, headers) ==
    \E url \in urls, q \in params, data \in bodies, h \in headers :
      IssueRest(c, "patch", url, q, data, h)

Delete(c, urls, params, headers) ==
    \E url \in urls, q \in params, h \in headers :
      IssueRest(c, "delete", url, q, Undefined, h)

\* A mutant: graphql without its endpoint test.
EndpointMissingNever(endpoint) == FALSE

\* if (!endpoint) throw new Error("GraphQL endpoint is not configured")
EndpointMissing(endpoint) == endpoint = ""

\* How graphql settles when it throws before the request is made.
EndpointNotConfigured == FacadeCatch("GraphQL endpoint is not configured", 0)

\* The body graphql posts: { query, variables }.
GraphqlBody == [k |-> "obj", v |-> [t |-> "obj", k |-> "query", n |-> 1]]

\* graphql(query, variables, config): the endpoint, then a POST of {query, variables}.
Graphql(c, baseUrls) ==
    /\ CanIssue(c)
    /\ \E baseUrl \in baseUrls :
         LET endpoint == IF baseUrl # "" THEN baseUrl ELSE GraphqlEndpoint(globalConfig)
             called == [calls[c] EXCEPT !.verb = "graphql", !.optBaseUrl = baseUrl,
                                        !.endpointAtCall = GraphqlEndpoint(globalConfig)]
         IN IF EndpointMissing(endpoint)
            THEN calls' = [calls EXCEPT ![c] =
                     Finished(called,
                              EndpointNotConfigured,
                              FALSE, 0, FALSE, FALSE, "none")]
            ELSE calls' = [calls EXCEPT ![c] =
                     [called EXCEPT !.pc = "issued", !.url = <<endpoint>>,
                               !.inUrl = <<endpoint>>,
                               !.method = "post",
                               !.data = GraphqlBody,
                               !.body = GraphqlBody,
                               !.headers = ClientHeaders(clients[calls[c].client]),
                               !.optGraphQL = TRUE]]
    /\ UNCHANGED <<globalConfig, cfgHistory, helper, clients, requestKeys, now,
                   metricLog, redirects>>

\* handleProductionSecurity: config.data after it.
handleProductionSecurity(cfg, data, salt) ==
    IF data.k = "obj" THEN [k |-> "str", v |-> encryptData(cfg, data.v, salt)] ELSE data

\* A mutant: one slot of the key table for every request.
KeyOfShared(c) == 1

\* The key under which requestKeys holds a request's pair: the request's own
\* config object.
KeyOf(c) == c

\* The request handler runs through: keys, encrypted body and encryption
\* headers when isProd, the Authorization header when a token is stored, the
\* common headers, the start time and the GraphQL flag on the request, then the
\* transport send.
BuildOk(c, pairs, salts, tokens, randoms) ==
    /\ calls[c].pc = "issued"
    /\ LET prod == isProd(clients[calls[c].client])
       IN \E pair \in pairs, salt \in salts, accessToken \in tokens, random \in randoms :
            LET h1 == IF prod
                      THEN updateHeadersWithEncryption(
                             calls[c].headers, pair.aesKey, pair.iv,
                             getPublicKeyDetails(globalConfig).publicKey_id)
                      ELSE calls[c].headers
                h2 == WithAuthorization(h1, accessToken)
            IN /\ requestKeys' =
                    IF prod
                    THEN [requestKeys EXCEPT ![KeyOf(c)] =
                             [set |-> TRUE, aesKey |-> pair.aesKey, iv |-> pair.iv]]
                    ELSE requestKeys
               /\ calls' = [calls EXCEPT ![c] =
                    [@ EXCEPT !.pc = "sent",
                              !.data = IF prod
                                       THEN handleProductionSecurity(globalConfig, @, salt)
                                       ELSE @,
                              !.headers = addCommonHeaders(h2, now, random),
                              !.token = accessToken,
                              !.preCommon = h2,
                              !.startTime = now,
                              !.isGraphQL = calls[c].optGraphQL,
                              !.built = TRUE,
                              !.atBuild = Snapshot(globalConfig),
                              !.sends = @ + 1]]
    /\ UNCHANGED <<globalConfig, cfgHistory, helper, clients, now, metricLog, redirects>>

\* A mutant: the response handlers delete the request's pair.
KeysAfterCallDeleted(keys) == NoKeys

\* The pair of a request once its verb has returned: no handler deletes it
\* (requestKeys is a WeakMap that is only written by set and read by get).
KeysAfterCall(keys) == keys

\* A mutant: the rejected handler with the redirect ahead of recordMetrics.
RejectedStepsRedirectFirst(d, status) ==
    (IF d.mode # "none" THEN <<"decryptData">> ELSE <<>>)
    \o (IF d.threw THEN <<>>
        ELSE [i \in 1..Len(RedirectFor(status)) |-> "location.assign"]
             \o <<"recordMetrics">>)
    \o <<"return">>

\* The statements of the rejected handler that run for an error, in the order
\* of the code: decryptData (when the body is looked at), recordMetrics and
\* window.location.assign (both skipped when decryptData threw), and after
\* Promise.reject(error) the return of the verb's catch.
RejectedSteps(d, status) ==
    (IF d.mode # "none" THEN <<"decryptData">> ELSE <<>>)
    \o (IF d.threw THEN <<>>
        ELSE <<"recordMetrics">>
             \o [i \in 1..Len(RedirectFor(status)) |-> "location.assign"])
    \o <<"return">>

\* The response handler's rejected side, then the verb's catch.
RunRejected(c, error) ==
    LET clientConfig == clients[calls[c].client]
        config == IF error.hasConfig THEN calls[c] ELSE EmptyRequestConfig
        keys == IF error.hasConfig THEN requestKeys[KeyOf(c)] ELSE NoKeys
        looked == isProd(clientConfig) /\ error.hasResponse /\ error.data.k # "empty"
                  /\ error.hasConfig
        paths == RedirectFor(error.status)
    IN \E d \in RejectedDecrypt(clientConfig, globalConfig, keys, error) :
         /\ metricLog' =
              IF d.threw THEN metricLog
              ELSE recordMetrics(globalConfig, metricLog,
                     MetricData(config, now, error.status, FALSE, isProd(clientConfig), c))
         /\ redirects' =
              IF d.threw THEN redirects
              ELSE redirects \o [i \in 1..Len(paths) |-> [path |-> paths[i], by |-> c]]
         /\ requestKeys' = [requestKeys EXCEPT ![KeyOf(c)] = KeysAfterCall(@)]
         /\ calls' = [calls EXCEPT ![c] =
              [ Finished(@, FacadeCatch(error.message, error.status),
                         error.hasResponse, error.status, error.hasResponse,
                         ~d.threw, d.mode)
                EXCEPT !.keysRead = IF looked THEN KeysRead(keys) ELSE NotRead,
                       !.decryptFailure = d.failure,
                       !.rejectedSteps = RejectedSteps(d, error.status) ]]

\* The request handler throws while it reads the session store: the rejection
\* skips the send and reaches the response handler's rejected side.
BuildFails(c, messages) ==
    /\ calls[c].pc = "issued"
    /\ \E message \in messages :
         RunRejected(c, [message |-> message, status |-> 0, hasResponse |-> FALSE,
                         hasConfig |-> FALSE, data |-> EmptyBody])
    /\ UNCHANGED <<globalConfig, cfgHistory, helper, clients, now>>

\* The AxiosError of a request that got no response.
NetworkError ==
    [message |-> "Network Error", status |-> 0, hasResponse |-> FALSE,
     hasConfig |-> TRUE, data |-> EmptyBody]

\* The transport fails without a response (network error, timeout).
RespondNetworkError(c) ==
    /\ calls[c].pc = "sent"
    /\ RunRejected(c, NetworkError)
    /\ UNCHANGED <<globalConfig, cfgHistory, helper, clients, now>>

\* The transport delivers a non-2xx response.
RespondHttpError(c, statuses, bodies) ==
    /\ calls[c].pc = "sent"
    /\ \E status \in statuses, body \in bodies :
         RunRejected(c, [message |-> "Request failed with status code " \o ToString(status),
                         status |-> status, hasResponse |-> TRUE, hasConfig |-> TRUE,
                         data |-> body])
    /\ UNCHANGED <<globalConfig, cfgHistory, helper, clients, now>>

\* How graphql settles when response.data is null: the TypeError of
\* response.data.data reaches its catch.
NullBodyError == FacadeCatch("Cannot read properties of null (reading 'data')", 0)

\* The verb's return after the pipeline resolved: response.data, or
\* response.data.data for graphql (a TypeError on null, caught by the verb).
FacadeReturn(verb, data, status) ==
    IF verb = "graphql"
    THEN IF data.k = "null"
         THEN NullBodyError
         ELSE [settled |-> "resolved",
               envelope |-> SuccessEnvelope(IF data.k = "obj" THEN data ELSE Undefined, status)]
    ELSE [settled |-> "resolved", envelope |-> SuccessEnvelope(data, status)]

\* The transport delivers a 2xx response: the response handler's fulfilled
\* side, then the verb's return or catch.
RespondSuccess(c, statuses, bodies) ==
    /\ calls[c].pc = "sent"
    /\ LET clientConfig == clients[calls[c].client]
           keys == requestKeys[KeyOf(c)]
           read == IF isProd(clientConfig) THEN KeysRead(keys) ELSE NotRead
       IN \E status \in statuses, body \in bodies :
          \E d \in FulfilledDecrypt(clientConfig, globalConfig, keys, body) :
            IF d.rejected
            THEN /\ metricLog' = metricLog
                 /\ calls' = [calls EXCEPT ![c] =
                      [ Finished(@, FacadeCatch(d.message, 0), TRUE, status, FALSE,
                                 FALSE, d.mode)
                        EXCEPT !.keysRead = read, !.decryptFailure = d.failure ]]
            ELSE /\ metricLog' = recordMetrics(globalConfig, metricLog,
                        MetricData(calls[c], now, status, TRUE, isProd(clientConfig), c))
                 /\ calls' = [calls EXCEPT ![c] =
                      [ Finished(@, FacadeReturn(calls[c].verb, d.data, status), TRUE,
                                 status, FALSE, TRUE, d.mode)
                        EXCEPT !.keysRead = read, !.decryptFailure = d.failure ]]
    /\ requestKeys' = [requestKeys EXCEPT ![KeyOf(c)] = KeysAfterCall(@)]
    /\ UNCHANGED <<globalConfig, cfgHistory, helper, clients, now, redirects>>

\* The runtime collects the request object of a call that has returned, and
\* with it the WeakMap entry it keys.
Collect(c) ==
    /\ calls[c].pc = "done"
    /\ requestKeys[KeyOf(c)].set
    /\ requestKeys' = [requestKeys EXCEPT ![KeyOf(c)] = NoKeys]
    /\ UNCHANGED <<globalConfig, cfgHistory, helper, clients, calls, now, metricLog,
                   redirects>>

\* A caller's setNetworkConfig(partial) at any moment between the steps.
SetConfig(partials) ==
    /\ Len(cfgHistory) < MaxUpdates
    /\ \E partial \in partials :
         /\ globalConfig' = setNetworkConfig(globalConfig, partial)
         /\ globalConfig' # globalConfig
         /\ cfgHistory' = Append(cfgHistory, partial)
    /\ calls' = [c \in CallIds |->
                   IF calls[c].pc \in {"issued", "sent"}
                   THEN [calls[c] EXCEPT !.changedSinceIssue = TRUE]
                   ELSE calls[c]]
    /\ UNCHANGED <<helper, clients, requestKeys, now, metricLog, redirects>>

\* new WebLattice(config) while other clients exist: the new client keeps its
\* config object, and setNetworkConfig(config) merges it into globalConfig.
NewClient(configs) ==
    /\ Len(clients) < MaxClients
    /\ \E config \in configs :
         /\ clients' = Append(clients, config)
         /\ globalConfig' = setNetworkConfig(globalConfig, config)
    /\ calls' = [c \in CallIds |->
                   IF calls[c].pc \in {"issued", "sent"} /\ globalConfig' # globalConfig
                   THEN [calls[c] EXCEPT !.changedSinceIssue = TRUE]
                   ELSE calls[c]]
    /\ UNCHANGED <<cfgHistory, helper, requestKeys, now, metricLog, redirects>>

\* Time passes.
Tick ==
    /\ now < MaxTime
    /\ now' = now + 1
    /\ UNCHANGED <<globalConfig, cfgHistory, helper, clients, calls, requestKeys,
                   metricLog, redirects>>

-----------------------------------------------------------------------------
(* Spec: one call of any verb, with every outcome, and configuration updates *)
(* between its steps                                                         *)

Init == InitWith(ClientConfigs)

OneCall == {1}

\* config.baseUrl of a graphql call: "" stands for none given.
GraphqlBaseUrls == {"", "/gql2"}

Next ==
    \/ \E c \in OneCall : Get(c, Urls, {NoParams}, {EmptyHeaders})
    \/ \E c \in OneCall : Post(c, Urls, {NoParams}, RequestBodies, {EmptyHeaders})
    \/ \E c \in OneCall : Put(c, Urls, {NoParams}, RequestBodies, {EmptyHeaders})
    \/ \E c \in OneCall : Patch(c, Urls, {NoParams}, RequestBodies, {EmptyHeaders})
    \/ \E c \in OneCall : Delete(c, Urls, {NoParams}, {EmptyHeaders})
    \/ \E c \in OneCall : Graphql(c, GraphqlBaseUrls)
    \/ \E c \in OneCall : BuildOk(c, KeyPairs, Salts, {""}, {"r1"})
    \/ \E c \in OneCall : BuildFails(c, BuildErrorMessages)
    \/ \E c \in OneCall : RespondSuccess(c, OkStatuses, ResponseBodies)
    \/ \E c \in OneCall : RespondHttpError(c, ErrorStatuses, ErrorBodies)
    \/ \E c \in OneCall : RespondNetworkError(c)
    \/ SetConfig(PipelinePartials)
    \/ Tick

Spec == Init /\ [][Next]_vars

-----------------------------------------------------------------------------
(* SpecCalls: several calls in flight at once, with fewer inputs each *)

CallsClientConfigs ==
    { initWebLattice("https://api", "PROD", "K1", TRUE) }

CallsPartials ==
    { [metrics |-> [enabled |-> TRUE, logToConsole |-> TRUE]],
      [metrics |-> [enabled |-> FALSE, logToConsole |-> TRUE]] }

CallsBodies ==
    { [k |-> "str", v |-> AESencrypt("{\"id\":2}", "K1", 1)] }

\* The pair generateEncryptionKeys() draws for a call: a different one each time.
KeyPairFor(c) == [aesKey |-> "a" \o ToString(c), iv |-> "v" \o ToString(c)]

InitCalls == InitWith(CallsClientConfigs)

NextCalls ==
    \/ \E c \in CallIds : Get(c, {<<"/users">>}, {NoParams}, {EmptyHeaders})
    \/ \E c \in CallIds : Post(c, {<<"/items">>}, {NoParams}, {ItemBody},
                               {EmptyHeaders})
    \/ \E c \in CallIds : BuildOk(c, {KeyPairFor(c)}, {1}, {""}, {"r1"})
    \/ \E c \in CallIds : RespondSuccess(c, OkStatuses, CallsBodies)
    \/ \E c \in CallIds : RespondHttpError(c, {401}, {EmptyBody})
    \/ SetConfig(CallsPartials)
    \/ Tick

SpecCalls == InitCalls /\ [][NextCalls]_vars

-----------------------------------------------------------------------------
(* SpecBuild: the Building phase of one call, with every header input *)

\* setNetworkConfig partials that switch to remote key management.
RemoteKeyPartials ==
    { [encryption |-> [enabled |-> TRUE, secretKey |-> "K1", useRemoteKeys |-> TRUE]] }

BuildPartials == PipelinePartials \cup RemoteKeyPartials

NextBuild ==
    \/ \E c \in OneCall : Get(c, Urls, {NoParams}, CallerHeaders)
    \/ \E c \in OneCall : Post(c, Urls, {NoParams}, RequestBodies, CallerHeaders)
    \/ \E c \in OneCall : Graphql(c, {"/gql2"})
    \/ \E c \in OneCall : BuildOk(c, KeyPairs, Salts, AccessTokens, RandomSuffixes)
    \/ SetConfig(BuildPartials)
    \/ Tick

SpecBuild == Init /\ [][NextBuild]_vars

-----------------------------------------------------------------------------
(* SpecKeys: the life of a request's key pair, from the Building phase to    *)
(* the collection of the request object                                      *)

NextKeys ==
    \/ \E c \in OneCall : Get(c, Urls, {NoParams}, {EmptyHeaders})
    \/ \E c \in OneCall : Post(c, Urls, {NoParams}, RequestBodies, {EmptyHeaders})
    \/ \E c \in OneCall : BuildOk(c, KeyPairs, Salts, {""}, {"r1"})
    \/ \E c \in OneCall : BuildFails(c, BuildErrorMessages)
    \/ \E c \in OneCall : RespondSuccess(c, OkStatuses, ResponseBodies)
    \/ \E c \in OneCall : RespondHttpError(c, ErrorStatuses, ErrorBodies)
    \/ \E c \in OneCall : RespondNetworkError(c)
    \/ \E c \in OneCall : Collect(c)
    \/ Tick

SpecKeys == Init /\ [][NextKeys]_vars

-----------------------------------------------------------------------------
(* SpecUrl: the verbs' url construction, for every url and queryParams map *)

NextUrl ==
    \/ \E c \in OneCall : Get(c, UrlInputs, QueryParamInputs, {EmptyHeaders})
    \/ \E c \in OneCall : Post(c, UrlInputs, QueryParamInputs, {ItemBody},
                               {EmptyHeaders})

SpecUrl == InitCalls /\ [][NextUrl]_vars

-----------------------------------------------------------------------------
(* SpecClients: several clients constructed in one process, calls made on any *)
(* of them, and configuration updates in between                              *)

ClientsConfigs ==
    { initWebLattice("https://api", "PROD", "K1", TRUE),
      initWebLattice("https://api", "DEV", "", FALSE),
      initWebLattice("https://api", "PROD", "K2", FALSE) }

ClientsPartials ==
    { [encryption |-> [enabled |-> FALSE]] }

InitClients == InitWith(ClientsConfigs)

NextClients ==
    \/ NewClient(ClientsConfigs)
    \/ \E c \in CallIds : Post(c, {<<"/items">>}, {NoParams}, {ItemBody},
                               {EmptyHeaders})
    \/ \E c \in CallIds : BuildOk(c, {KeyPairFor(c)}, {1}, {""}, {"r1"})
    \/ \E c \in CallIds : RespondSuccess(c, {200}, {ItemReply})
    \/ \E c \in CallIds : RespondHttpError(c, {401}, {EmptyBody})
    \/ SetConfig(ClientsPartials)

SpecClients == InitClients /\ [][NextClients]_vars

-----------------------------------------------------------------------------
(* Claims about the encryption helper and the configuration store *)

\* C6 (as stated): whenever encryption is disabled or the environment is not
\* PROD, encrypt(P) is exactly JSON(P).
C6_PassThroughOutsideProd ==
    (helper.pc # "start" /\
       (~EncEnabled(helper.encCfg) \/ Field(helper.encCfg, "environment", "") # "PROD"))
    => helper.enc = Text(JSONstringify(helper.payload))

\* C6 (amended): whenever encryption is disabled or no secret key is
\* configured, encrypt(P) is exactly JSON(P), whatever the environment; with
\* encryption enabled and a key, encrypt(P) is the AES ciphertext of JSON(P)
\* under that key, in DEV and UAT as in PROD.
C6_PassThroughWhenDisabledOrUnkeyed ==
    helper.pc # "start" =>
      IF ~EncEnabled(helper.encCfg) \/ SecretKey(helper.encCfg) = ""
      THEN helper.enc = Text(JSONstringify(helper.payload))
      ELSE /\ helper.enc.kind = "cipher"
           /\ helper.enc.key = SecretKey(helper.encCfg)
           /\ helper.enc.s = JSONstringify(helper.payload)

C6_Witness ==
    /\ helper.pc = "encrypted"
    /\ helper.encCfg.environment = "UAT"
    /\ EncEnabled(helper.encCfg)
    /\ SecretKey(helper.encCfg) = ""
    /\ helper.payload.t = "obj"
    /\ helper.enc = Text("{\"id\":1}")

\* C7: with the configuration unchanged between the two calls,
\* decrypt(encrypt(P)) is JSON(P), in the encrypting configurations and in the
\* pass-through ones.
C7_RoundTrip ==
    (helper.pc = "decrypted" /\ ~helper.changed)
    => (~helper.dec.threw /\ helper.dec.val = Text(JSONstringify(helper.payload)))

C7_Witness ==
    /\ helper.pc = "decrypted"
    /\ ~helper.changed
    /\ helper.encCfg.environment = "PROD"
    /\ EncEnabled(helper.encCfg)
    /\ SecretKey(helper.encCfg) = "K2"
    /\ helper.enc.kind = "cipher"
    /\ helper.payload.t = "str"
    /\ helper.dec.val = Text("\"a\"")

\* C9: after any sequence of setConfig(partial) calls, each top-level key of
\* getConfig() holds the value of the most recent partial containing that key
\* (the whole value), or its previous value (the default, or absent) when no
\* partial contains it.
C9_ShallowMerge ==
    \A k \in ConfigKeys :
      LET i == LatestIndex(cfgHistory, k)
      IN IF i > 0
         THEN k \in DOMAIN getNetworkConfig /\ getNetworkConfig[k] = cfgHistory[i][k]
         ELSE IF k \in DOMAIN DefaultConfig
              THEN k \in DOMAIN getNetworkConfig /\ getNetworkConfig[k] = DefaultConfig[k]
              ELSE k \notin DOMAIN getNetworkConfig

C9_Updates ==
    << [metrics |-> [enabled |-> FALSE, logToConsole |-> TRUE]],
       [environment |-> "UAT"],
       [metrics |-> [enabled |-> TRUE]] >>

C9_Witness ==
    /\ Len(cfgHistory) = 3
    /\ cfgHistory = C9_Updates
    /\ DOMAIN getNetworkConfig.metrics = {"enabled"}
    /\ getNetworkConfig.metrics.enabled
    /\ getNetworkConfig.environment = "UAT"
    /\ getNetworkConfig.timeout = 10000

-----------------------------------------------------------------------------
(* Claims about the pipeline and the facade *)

\* The MetricRecords recorded for call c, and the redirects it triggered.
MetricsOf(c) == SelectSeq(metricLog, LAMBDA m : m.by = c)
RedirectsOf(c) == SelectSeq(redirects, LAMBDA r : r.by = c)
PathsOf(c) == [i \in 1..Len(RedirectsOf(c)) |-> RedirectsOf(c)[i].path]

\* C1: every facade verb resolves with an ApiResponse envelope for every
\* outcome of the call; no call rejects.
C1_AlwaysEnvelope ==
    \A c \in CallIds :
      /\ calls[c].settled # "rejected"
      /\ calls[c].pc = "done" =>
           /\ calls[c].settled = "resolved"
           /\ calls[c].envelope.success \in BOOLEAN
           /\ calls[c].envelope.success => calls[c].envelope.statusCode \in OkStatuses
           /\ ~calls[c].envelope.success => calls[c].envelope.error # ""

C1_Witness ==
    /\ calls[1].pc = "done"
    /\ calls[1].verb = "graphql"
    /\ calls[1].sends = 0
    /\ calls[1].settled = "resolved"
    /\ calls[1].envelope.error = "GraphQL endpoint is not configured"

\* C2 (as stated): for any call, exactly one MetricRecord is recorded when
\* metrics are enabled and none when they are disabled, whether the call
\* succeeds or fails.
C2_OneMetricPerCall ==
    \A c \in CallIds :
      calls[c].pc = "done" =>
        Len(MetricsOf(c)) = IF calls[c].metricsAtEnd THEN 1 ELSE 0

\* C3 (as stated): a call that ends with a 401 response triggers
\* redirect("/enter-email") exactly once, one that ends with a status in
\* [500,600) triggers redirect("/generic-error") exactly once, any other call
\* triggers no redirect.
C3_RedirectPerStatus ==
    \A c \in CallIds :
      calls[c].pc = "done" =>
        PathsOf(c) =
          IF calls[c].responded /\ calls[c].httpStatus = 401 THEN <<"/enter-email">>
          ELSE IF calls[c].responded /\ calls[c].httpStatus >= 500
                  /\ calls[c].httpStatus < 600
          THEN <<"/generic-error">>
          ELSE <<>>

\* C4 (as stated): on every failure envelope error is a non-empty message,
\* statusCode is the real HTTP status when a response was received and 500
\* otherwise, and errorCode is "ERR_<status>" or "ERR_UNKNOWN" accordingly.
C4_FailureFieldsFromResponse ==
    \A c \in CallIds :
      (calls[c].pc = "done" /\ ~calls[c].envelope.success) =>
        /\ calls[c].envelope.error # ""
        /\ calls[c].envelope.statusCode =
             IF calls[c].responded THEN calls[c].httpStatus ELSE 500
        /\ calls[c].envelope.errorCode =
             IF calls[c].responded THEN "ERR_" \o ToString(calls[c].httpStatus)
             ELSE "ERR_UNKNOWN"

\* C4 (amended): on every failure envelope error is a non-empty message;
\* statusCode is the HTTP status of the error response when the failure is an
\* HTTP error response, and 500 otherwise, also when a 2xx response was
\* received and the call failed while that response was processed; errorCode is
\* "ERR_<status>" in the first case and "ERR_UNKNOWN" in the second.
C4_FailureFieldsFromError ==
    \A c \in CallIds :
      (calls[c].pc = "done" /\ ~calls[c].envelope.success) =>
        /\ calls[c].envelope.error # ""
        /\ calls[c].envelope.statusCode =
             IF calls[c].errorHasResponse THEN calls[c].httpStatus ELSE 500
        /\ calls[c].envelope.errorCode =
             IF calls[c].errorHasResponse THEN "ERR_" \o ToString(calls[c].httpStatus)
             ELSE "ERR_UNKNOWN"

C4_Witness ==
    /\ calls[1].pc = "done"
    /\ ~calls[1].envelope.success
    /\ calls[1].responded
    /\ calls[1].httpStatus = 200
    /\ calls[1].envelope.statusCode = 500
    /\ calls[1].envelope.errorCode = "ERR_UNKNOWN"
    /\ calls[1].envelope.error = "Unexpected token in JSON"

\* C5 (as stated): for a call whose Building phase is complete when setConfig
\* is applied, the response phase behaves as if the update had not happened:
\* its MetricRecord is emitted, and its body decrypted, as the configuration of
\* its Building phase says.
C5_ResponsePhaseAsBuilt ==
    \A c \in CallIds :
      (calls[c].pc = "done" /\ calls[c].built) =>
        /\ calls[c].reachedRecord =>
             Len(MetricsOf(c)) = IF calls[c].atBuild.metrics THEN 1 ELSE 0
        /\ calls[c].decryptMode # "none" =>
             calls[c].decryptMode =
               DecryptBranch(calls[c].atBuild.enabled, calls[c].atBuild.key)

\* C8: calls in flight at the same time, whose responses arrive in any order,
\* each produce a MetricRecord with that call's own url, method, startTime and
\* duration (its endTime minus its own startTime).
C8_OwnMetricRecord ==
    \A i \in 1..Len(metricLog) :
      LET m == metricLog[i]
          call == calls[m.by]
      IN /\ call.pc = "done"
         /\ Len(MetricsOf(m.by)) = 1
         /\ call.built =>
              /\ m.url = call.url
              /\ <<call.method, m.method>> \in
                   { <<"get", "GET">>, <<"post", "POST">>, <<"put", "PUT">>,
                     <<"patch", "PATCH">>, <<"delete", "DELETE">> }
              /\ m.startTime = call.startTime
              /\ m.endTime = call.endTime
              /\ m.duration = call.endTime - call.startTime

C8_Witness ==
    /\ Len(metricLog) = 2
    /\ metricLog[1].by = 2
    /\ metricLog[2].by = 1
    /\ calls[1].startTime = 1
    /\ calls[2].startTime = 2
    /\ metricLog[1].duration = 0
    /\ metricLog[2].duration = 1
    /\ calls[1].url # calls[2].url
    /\ calls[1].method # calls[2].method
    /\ metricLog[1].success # metricLog[2].success

\* C10: with a setConfig between two sequential calls, the later call behaves
\* according to the updated configuration (its MetricRecord is recorded exactly
\* when metrics are enabled in it), and nothing produced for a completed call
\* (its MetricRecords, its envelope) is changed by any later step.
C10_UpdateNotRetroactive ==
    /\ [](\A c \in CallIds :
            (calls[c].pc = "done" /\ calls[c].built /\ ~calls[c].changedSinceIssue
               /\ calls[c].reachedRecord)
            => Len(MetricsOf(c)) = IF calls[c].atBuild.metrics THEN 1 ELSE 0)
    /\ [][\A c \in CallIds :
            calls[c].pc = "done" =>
              /\ calls'[c].pc = "done"
              /\ calls'[c].settled = calls[c].settled
              /\ calls'[c].envelope = calls[c].envelope
              /\ MetricsOf(c)' = MetricsOf(c)]_vars

C10_Updates == << [metrics |-> [enabled |-> FALSE, logToConsole |-> TRUE]] >>

C10_Witness ==
    /\ calls[1].pc = "done"
    /\ calls[2].pc = "done"
    /\ cfgHistory = C10_Updates
    /\ ~calls[1].changedSinceIssue
    /\ calls[1].metricsAtEnd
    /\ Len(MetricsOf(1)) = 1
    /\ calls[1].envelope.success
    /\ ~calls[2].changedSinceIssue
    /\ ~calls[2].atBuild.metrics
    /\ calls[2].envelope.success
    /\ Len(MetricsOf(2)) = 0

-----------------------------------------------------------------------------
(* Claims about graphql, the Building phase and the response handlers *)

\* C11: graphql(query, vars) with no endpoint in the per-call config and none
\* in the global configuration returns a failure envelope whose error message
\* reports the missing configuration, and no transport send is attempted for
\* that call.
C11_GraphqlWithoutEndpoint ==
    \A c \in CallIds :
      (calls[c].verb = "graphql" /\ calls[c].optBaseUrl = ""
         /\ calls[c].endpointAtCall = "")
      => /\ calls[c].pc = "done"
         /\ calls[c].settled = "resolved"
         /\ ~calls[c].envelope.success
         /\ calls[c].envelope.error = "GraphQL endpoint is not configured"
         /\ calls[c].sends = 0
         /\ ~calls[c].built
         /\ ~calls[c].responded

C11_Witness ==
    /\ calls[1].pc = "done"
    /\ calls[1].verb = "graphql"
    /\ calls[1].optBaseUrl = ""
    /\ calls[1].endpointAtCall = ""
    /\ GraphqlEndpoint(globalConfig) = "/graphql"
    /\ calls[1].sends = 0
    /\ calls[1].envelope.statusCode = 500
    /\ calls[1].envelope.errorCode = "ERR_UNKNOWN"

\* The names of the encryption headers.
EncryptionHeaderNames ==
    {"x-encryption", "x-encryption-key", "x-encryption-iv", "x-public-key-id"}

\* C12 (as stated): a client created by initWebLattice with env 'PROD' treats
\* its calls as production-encrypted (a key pair is stored and the
\* x-encryption headers are attached) without encryption being enabled
\* separately.
C12_ProdEncryptsByDefault ==
    \A c \in CallIds :
      (calls[c].pc = "sent" /\ clients[calls[c].client].environment = "PROD")
      => /\ EncryptionHeaderNames \subseteq DOMAIN calls[c].headers
         /\ calls[c].headers["x-encryption"] = "true"
         /\ requestKeys[c].set

\* C13 (as stated): on the failure path, a decrypt or parse failure while
\* error.response.data is processed does not abort the flow: the MetricRecord
\* with success=false is still recorded, the redirect for the status is still
\* triggered, and the failure envelope with the original status is returned.
C13_ErrorBodyFailureGoesOn ==
    \A c \in CallIds :
      (calls[c].pc = "done" /\ calls[c].errorHasResponse
         /\ calls[c].decryptFailure # "")
      => /\ Len(MetricsOf(c)) = IF calls[c].metricsAtEnd THEN 1 ELSE 0
         /\ \A i \in 1..Len(MetricsOf(c)) : ~MetricsOf(c)[i].success
         /\ PathsOf(c) = RedirectFor(calls[c].httpStatus)
         /\ ~calls[c].envelope.success
         /\ calls[c].envelope.statusCode = calls[c].httpStatus

\* C14: on the success path, when the call is production-encrypted, a key pair
\* is stored for the request and the response body is a string, a failure to
\* parse the decrypted body as JSON ends the call as a failure: the envelope
\* has success=false, and an envelope with success=true never carries the
\* undecoded string.
C14_ParseFailureFails ==
    \A c \in CallIds :
      (calls[c].pc = "done" /\ calls[c].responded /\ ~calls[c].errorHasResponse
         /\ calls[c].keysRead.set /\ calls[c].decryptMode # "none")
      => /\ calls[c].decryptFailure = "parse" =>
              /\ calls[c].settled = "resolved"
              /\ ~calls[c].envelope.success
              /\ calls[c].envelope.error = "Unexpected token in JSON"
         /\ calls[c].envelope.success =>
              /\ calls[c].decryptFailure = ""
              /\ calls[c].envelope.data.k # "str"

C14_Witness ==
    /\ calls[1].pc = "done"
    /\ calls[1].verb = "post"
    /\ calls[1].httpStatus = 200
    /\ calls[1].keysRead.set
    /\ calls[1].decryptMode = "K1"
    /\ calls[1].decryptFailure = "parse"
    /\ ~calls[1].envelope.success
    /\ MetricsOf(1) = <<>>

-----------------------------------------------------------------------------
(* Claims about url construction, the headers and the key pairs *)

\* The sequences of a sequence of sequences, joined by a separator.
RECURSIVE JoinWith(_, _)
JoinWith(parts, sep) ==
    IF parts = <<>> THEN <<>>
    ELSE IF Len(parts) = 1 THEN parts[1]
    ELSE parts[1] \o <<sep>> \o JoinWith(Tail(parts), sep)

\* C15: for every url and query-parameter map, the final URL is the url
\* followed by the URL-encoded parameters whose value is neither undefined nor
\* null, in map order; the separator is "?" when url contains no "?" and "&"
\* when it already contains one; when no parameter remains the url is
\* returned unchanged.
C15_UrlConstruction ==
    \A c \in CallIds :
      calls[c].pc = "issued" =>
        LET kept == SelectSeq(calls[c].queryParams,
                              LAMBDA e : e.value.t \notin {"undefined", "null"})
            pairs == [ i \in 1..Len(kept) |->
                         UrlEncode(kept[i].key) \o <<"=">>
                           \o UrlEncode(StringOf(kept[i].value)) ]
            sep == IF \E i \in 1..Len(calls[c].inUrl) : calls[c].inUrl[i] = "?"
                   THEN "&" ELSE "?"
        IN calls[c].url =
             IF kept = <<>> THEN calls[c].inUrl
             ELSE calls[c].inUrl \o <<sep>> \o JoinWith(pairs, "&")

C15_Params ==
    << [key |-> <<"limit">>, value |-> [t |-> "null"]],
       [key |-> <<"page">>, value |-> [t |-> "num", n |-> 1]] >>

C15_Witness ==
    /\ calls[1].pc = "issued"
    /\ calls[1].inUrl = <<"/users", "?", "x", "=", "1">>
    /\ calls[1].queryParams = C15_Params
    /\ calls[1].url = <<"/users", "?", "x", "=", "1", "&", "page", "=", "1">>

\* The payload JSON.stringify sees for a request body.
PayloadOf(body) == IF body.k = "obj" THEN body.v ELSE [t |-> "str", s |-> body.v.s]

\* C16 (as stated): in the Building phase the four encryption headers are
\* attached if and only if the call is production-encrypted, and whenever it is
\* and the call has a body, the outgoing body is encrypt(body), for every kind
\* of body.
C16_EncryptedBodyAndHeaders ==
    \A c \in CallIds :
      calls[c].pc = "sent" =>
        LET prod == isProd(clients[calls[c].client])
            cfg == [encryption |-> [enabled |-> calls[c].atBuild.enabled,
                                    secretKey |-> calls[c].atBuild.key]]
        IN /\ prod => EncryptionHeaderNames \subseteq DOMAIN calls[c].headers
           /\ ~prod => EncryptionHeaderNames \cap DOMAIN calls[c].headers = {}
           /\ (prod /\ calls[c].body # Undefined) =>
                \E salt \in Salts :
                  calls[c].data =
                    [k |-> "str", v |-> encryptData(cfg, PayloadOf(calls[c].body), salt)]

\* C17 (as stated): at the Building phase of every call, the call is
\* production-encrypted exactly when environment is PROD and encryption is
\* enabled in the process-wide configuration as it stands at that moment, also
\* after setConfig has changed them.
C17_ProdFromGlobalConfig ==
    \A c \in CallIds :
      calls[c].pc = "sent" =>
        ( ( /\ "x-encryption" \in DOMAIN calls[c].headers
            /\ requestKeys[c].set )
          <=> (calls[c].atBuild.env = "PROD" /\ calls[c].atBuild.enabled) )

\* The pair a request carries in its own headers.
OwnPair(c) ==
    IF {"x-encryption-key", "x-encryption-iv"} \subseteq DOMAIN calls[c].headers
    THEN [set |-> TRUE, aesKey |-> calls[c].headers["x-encryption-key"],
          iv |-> calls[c].headers["x-encryption-iv"]]
    ELSE NoKeys

\* C18: one key pair per in-flight production-encrypted request: the pair
\* stored in the Building phase is the one the same request's response phase
\* retrieves, on success and on failure, and requests in flight at the same
\* time never share or overwrite each other's pair.
C18_OwnKeyPair ==
    \A c \in CallIds :
      (calls[c].built /\ isProd(clients[calls[c].client])) =>
        /\ OwnPair(c).set
        /\ calls[c].pc = "sent" => requestKeys[c] = OwnPair(c)
        /\ calls[c].keysRead.read => calls[c].keysRead = KeysRead(OwnPair(c))
        /\ \A d \in CallIds \ {c} :
             (calls[c].pc = "sent" /\ calls[d].pc = "sent") =>
               requestKeys[c] # requestKeys[d]

C18_Witness ==
    /\ calls[1].pc = "done"
    /\ calls[2].pc = "done"
    /\ calls[1].startTime = 1
    /\ calls[2].startTime = 1
    /\ calls[2].endTime = 1
    /\ calls[1].endTime = 2
    /\ calls[1].keysRead.read /\ calls[1].keysRead.set
    /\ calls[1].keysRead.aesKey = "a1" /\ calls[1].keysRead.iv = "v1"
    /\ calls[2].keysRead.read /\ calls[2].keysRead.set
    /\ calls[2].keysRead.aesKey = "a2" /\ calls[2].keysRead.iv = "v2"
    /\ calls[1].envelope.success
    /\ calls[2].envelope.success

\* C19 (as stated): after a call reaches Succeeded or Failed, the key
\* side-table holds no entry for that request.
C19_DiscardedAtEnd ==
    \A c \in CallIds : calls[c].pc = "done" => ~requestKeys[c].set

\* C19 (amended): no step of the pipeline removes a request's pair: when the
\* call has succeeded or failed the entry is still in the side-table,
\* unchanged, and it leaves the table only when the runtime collects the
\* request object, after the call has returned.
C19_KeptUntilCollected ==
    /\ [](\A c \in CallIds :
            (calls[c].pc = "done" /\ calls[c].built /\ isProd(clients[calls[c].client]))
            => requestKeys[c] \in {NoKeys, OwnPair(c)})
    /\ [][\A c \in CallIds :
            (requestKeys[c].set /\ requestKeys'[c] # requestKeys[c]) =>
              /\ calls[c].pc = "done"
              /\ calls'[c] = calls[c]
              /\ requestKeys'[c] = NoKeys]_vars

C19_Witness ==
    /\ calls[1].pc = "done"
    /\ calls[1].responded
    /\ calls[1].envelope.success
    /\ calls[1].endTime = 1
    /\ now = 2
    /\ requestKeys[1].set
    /\ requestKeys[1].aesKey = "a2" /\ requestKeys[1].iv = "v2"

\* The common headers of call c, with their values.
HasCommonHeaders(c) ==
    /\ CommonHeaderNames \subseteq DOMAIN calls[c].headers
    /\ \E r \in RandomSuffixes :
         calls[c].headers["x-correlation-id"] = ToString(calls[c].startTime) \o "-" \o r
    /\ calls[c].headers["x-client-version"] = "1.0.0"
    /\ calls[c].headers["x-app-platform"] = "web"

C23_MetricMatchesEnvelope ==
    \A c \in CallIds :
      (calls[c].pc = "done" /\ calls[c].settled = "resolved") =>
        \A i \in 1..Len(MetricsOf(c)) :
          MetricsOf(c)[i].success = calls[c].envelope.success

\* C22: after any sequence of client constructions and setNetworkConfig calls,
\* a call that is built as production-encrypted and carries x-encryption: true
\* with a body has as its outgoing body the AES ciphertext of that body under
\* its client's secret key, never the pass-through JSON text.
C22_PipelineAndHelperAgree ==
    \A c \in CallIds :
      LET own == clients[calls[c].client]
      IN ( /\ calls[c].pc \in {"sent", "done"}
           /\ calls[c].built
           /\ isProd(own)
           /\ "x-encryption" \in DOMAIN calls[c].headers
           /\ calls[c].body # Undefined ) =>
           /\ calls[c].headers["x-encryption"] = "true"
           /\ \E salt \in Salts :
                calls[c].data =
                  [k |-> "str",
                   v |-> AESencrypt(JSONstringify(PayloadOf(calls[c].body)),
                                    SecretKey(own), salt)]

\* C24: a finished call of a client created with enableMetrics=false has no
\* MetricRecord, and a finished call of a client created with metrics enabled
\* has one, whatever other clients were constructed in the meantime.
C24_OwnMetricsSetting ==
    \A c \in CallIds :
      calls[c].pc = "done" =>
        Len(MetricsOf(c)) =
          (IF MetricsEnabled(clients[calls[c].client]) THEN 1 ELSE 0)

\* The secret keys configured when a request went out: its client's, and the
\* process-wide one at the Building phase and now.
SecretKeysOf(c) ==
    {SecretKey(clients[calls[c].client]), calls[c].atBuild.key, SecretKey(globalConfig)}
      \ {""}

\* C25: no header of an outgoing request has a configured encryption secret key
\* as its value, under local and under remote key management: x-encryption-key
\* and x-encryption-iv carry the pair generated for the request, and
\* x-public-key-id carries a key identifier.
C25_SecretKeyNotInHeaders ==
    \A c \in CallIds :
      calls[c].pc = "sent" =>
        LET h == calls[c].headers
        IN /\ \A k \in DOMAIN h : h[k] \notin SecretKeysOf(c)
           /\ "x-encryption-key" \in DOMAIN h =>
                /\ requestKeys[KeyOf(c)].set
                /\ h["x-encryption-key"] = requestKeys[KeyOf(c)].aesKey
                /\ \E pair \in KeyPairs : pair.aesKey = h["x-encryption-key"]
           /\ "x-encryption-iv" \in DOMAIN h =>
                /\ requestKeys[KeyOf(c)].set
                /\ h["x-encryption-iv"] = requestKeys[KeyOf(c)].iv
                /\ \E pair \in KeyPairs : pair.iv = h["x-encryption-iv"]
           /\ "x-public-key-id" \in DOMAIN h =>
                h["x-public-key-id"] \in {"local-key-id", "remote-key-id"}

C25_Witness ==
    /\ calls[1].pc = "sent"
    /\ isProd(clients[1])
    /\ SecretKey(clients[1]) = "K1"
    /\ UseRemoteKeys(globalConfig)
    /\ calls[1].atBuild.key = "K1"
    /\ calls[1].body # Undefined
    /\ "x-public-key-id" \in DOMAIN calls[1].headers
    /\ calls[1].headers["x-public-key-id"] = "remote-key-id"
    /\ "x-encryption-key" \in DOMAIN calls[1].headers
    /\ calls[1].headers["x-encryption-key"] = "a2"
    /\ calls[1].headers["x-encryption-iv"] = "v2"

====
